---- MODULE Spec2Model ----
(***************************************************************************)
(* A model of experiments/mnist_experiment/experiment_manager.py: the      *)
(* MnistExperiment manager (forward_pass, additional_testing,              *)
(* save_input_and_recons, _parse_args, _make_run_description).             *)
(*                                                                         *)
(* Strings are sequences of one-character strings, so that formatting an   *)
(* integer is a computation.  Tensors are sequences indexed from 1: the    *)
(* Python index i is the TLA+ index i + 1.  A batch is a sequence of       *)
(* images; an image is a tagged tuple: <<"input", e>> is example e of the   *)
(* data set, <<"recon", e>> the model's reconstruction of it.  A scalar     *)
(* mean is a rational number in lowest terms.                              *)
(***************************************************************************)
EXTENDS Integers, Sequences, FiniteSets, TLC

VARIABLES
  pc,               \* where the single thread of control is
  args,             \* self.args, NoRecord before _parse_args has returned
  run_description,  \* self.run_description
  err,              \* the exception that ended the process, or NoError
  global_step,      \* self.model.global_step
  params,           \* the model's parameters
  dataloaders_test, \* self.dataloaders.test: the sequence of test batches
  files,            \* the image files on disk
  effects,          \* which collaborators have been used so far
  call,             \* the last call made from outside: its name and arguments
  ret,              \* what that call returned
  model_out,        \* the raw output the model gave inside that call
  img_folder, step, x, fname   \* locals of additional_testing

vars == <<pc, args, run_description, err, global_step, params,
          dataloaders_test, files, effects, call, ret, model_out,
          img_folder, step, x, fname>>

(***************************************************************************)
(* Bounds of the model.                                                    *)
(***************************************************************************)
NumEx == 2
MaxBatch == 3
MaxStep == 1
MaxN == 4

Examples == 0 .. (NumEx - 1)
\* Python's None, where a sequence is expected and where a record is
None == <<>>
NoRecord == [none |-> TRUE]
NoCall == [op |-> "none"]
NoError == [type |-> "", msg |-> <<>>]

(***************************************************************************)
(* Python's str() of an integer, as used by str(step) and '{}'.format().   *)
(***************************************************************************)
Digit(d) == <<"0", "1", "2", "3", "4", "5", "6", "7", "8", "9">>[d + 1]

RECURSIVE StrNat(_)
StrNat(k) == IF k < 10 THEN <<Digit(k)>>
             ELSE StrNat(k \div 10) \o <<Digit(k % 10)>>

str(i) == IF i < 0 THEN <<"-">> \o StrNat(-i) ELSE StrNat(i)

(***************************************************************************)
(* _parse_args: the flags' values are the input; the defaults are those    *)
(* the code hands to add_required_args.  The two float options (lr, wd)    *)
(* play no part in what follows and are left out; additional_descr and     *)
(* dry_run are flags of the base parser, read at lines 165 and 81.         *)
(***************************************************************************)
Defaults == [batch_size |-> 64, test_batch_size |-> 1000, seed |-> 54321,
             train_log_every |-> 1000, test_log_every |-> 1000,
             checkpoint_every |-> 10000, resume |-> <<>>,
             loglikelihood_every |-> 50000, loglikelihood_samples |-> 100,
             additional_descr |-> <<>>, dry_run |-> FALSE]

LogLikelihoodEveryVals == {100, 1000, 50000}
TestLogEveryVals == {0, 30, 50, 1000}
SeedVals == {0, 7, 54321}
DescrVals == {<<>>, <<"f", "o", "o">>, <<"a", ",", "b">>}

\* The command lines tried: each overrides some defaults.
Argv == {[Defaults EXCEPT !.loglikelihood_every = l, !.test_log_every = t,
                          !.seed = s, !.additional_descr = d, !.dry_run = r] :
           l \in LogLikelihoodEveryVals, t \in TestLogEveryVals,
           s \in SeedVals, d \in DescrVals, r \in BOOLEAN}

\* Python's a % b == 0, which raises ZeroDivisionError when b is 0.
PyModIsZero(a, b) == IF b = 0 THEN [raised |-> "ZeroDivisionError"]
                     ELSE [raised |-> "", value |-> (a % b = 0)]

\* _parse_args with the operands of the test the other way round
_parse_args_swapped(argv) ==
  LET parsed == argv
      test == PyModIsZero(parsed.test_log_every, parsed.loglikelihood_every)
  IN  IF test.raised # "" THEN [raised |-> test.raised, args |-> NoRecord]
      ELSE IF ~test.value THEN [raised |-> "AssertionError", args |-> NoRecord]
      ELSE [raised |-> "", args |-> parsed]

_parse_args(argv) ==
  LET parsed == argv
      test == PyModIsZero(parsed.loglikelihood_every, parsed.test_log_every)
  IN  IF test.raised # "" THEN [raised |-> test.raised, args |-> NoRecord]
      ELSE IF ~test.value THEN [raised |-> "AssertionError", args |-> NoRecord]
      ELSE [raised |-> "", args |-> parsed]

\* _make_run_description appending the description without testing its length
_make_run_description_always_comma(a) ==
  <<"s", "e", "e", "d">> \o str(a.seed) \o <<",">> \o a.additional_descr

_make_run_description(a) ==
  LET s0 == <<>>
      s1 == s0 \o <<"s", "e", "e", "d">> \o str(a.seed)
  IN  IF Len(a.additional_descr) > 0
        THEN s1 \o <<",">> \o a.additional_descr
        ELSE s1

(***************************************************************************)
(* Scalars: torch's mean of a vector is kept exact, as a fraction in       *)
(* lowest terms; the mean of an empty vector is nan.                       *)
(***************************************************************************)
NaN == [num |-> 0, den |-> 0]

Abs(i) == IF i < 0 THEN -i ELSE i

RECURSIVE Gcd(_, _)
Gcd(a, b) == IF b = 0 THEN a ELSE Gcd(b, a % b)

Frac(num, den) == LET g == Gcd(Abs(num), den)
                  IN  [num |-> num \div g, den |-> den \div g]

RECURSIVE SumSeq(_)
SumSeq(v) == IF v = <<>> THEN 0 ELSE Head(v) + SumSeq(Tail(v))

mean(v) == IF Len(v) = 0 THEN NaN ELSE Frac(SumSeq(v), Len(v))

neg(r) == IF r = NaN THEN NaN ELSE [num |-> 0 - r.num, den |-> r.den]

(***************************************************************************)
(* The model collaborator (MnistVAE).  Its parameters give each example a  *)
(* reconstruction term and a KL term; the ELBO is -(nll + kl).             *)
(***************************************************************************)
ParamVals == {[nll |-> 1, kl |-> 0], [nll |-> 1, kl |-> 1], [nll |-> 3, kl |-> 1]}
ParamSpace == [Examples -> ParamVals]

model(prm, xb) ==
  [sample |-> [i \in 1 .. Len(xb) |-> <<"recon", xb[i][2]>>],
   mean   |-> [i \in 1 .. Len(xb) |-> <<"recon_mean", xb[i][2]>>],
   elbo   |-> [i \in 1 .. Len(xb) |-> 0 - (prm[xb[i][2]].nll + prm[xb[i][2]].kl)],
   nll    |-> [i \in 1 .. Len(xb) |-> prm[xb[i][2]].nll],
   kl     |-> [i \in 1 .. Len(xb) |-> prm[xb[i][2]].kl]]

sample_prior(k) == [i \in 1 .. k |-> <<"prior", i>>]

(***************************************************************************)
(* forward_pass(x, y): the record of losses and metrics.                   *)
(***************************************************************************)
\* forward_pass with the negation of the ELBO left out
forward_pass_loss_not_negated(prm, xb, y) ==
  LET out == model(prm, xb)
      elbo_sep == out.elbo
      elbo == mean(elbo_sep)
  IN  ("out_sample" :> out.sample) @@ ("out_mean" :> out.mean) @@
      ("loss" :> elbo) @@ ("elbo_sep" :> elbo_sep) @@
      ("elbo/elbo" :> elbo) @@ ("elbo/recons" :> mean(out.nll)) @@
      ("elbo/kl" :> mean(out.kl))

\* forward_pass handing back the ELBO of the first example only
forward_pass_elbo_sep_first(prm, xb, y) ==
  LET out == model(prm, xb)
      elbo_sep == out.elbo
      elbo == mean(elbo_sep)
  IN  ("out_sample" :> out.sample) @@ ("out_mean" :> out.mean) @@
      ("loss" :> neg(elbo)) @@ ("elbo_sep" :> SubSeq(elbo_sep, 1, 1)) @@
      ("elbo/elbo" :> elbo) @@ ("elbo/recons" :> mean(out.nll)) @@
      ("elbo/kl" :> mean(out.kl))

\* forward_pass with the labels, when given, added to the per-example ELBO
forward_pass_uses_y(prm, xb, y) ==
  LET out == model(prm, xb)
      elbo_sep == IF y = None THEN out.elbo
                  ELSE [i \in 1 .. Len(xb) |-> out.elbo[i] + y[i]]
      elbo == mean(elbo_sep)
  IN  ("out_sample" :> out.sample) @@ ("out_mean" :> out.mean) @@
      ("loss" :> neg(elbo)) @@ ("elbo_sep" :> elbo_sep) @@
      ("elbo/elbo" :> elbo) @@ ("elbo/recons" :> mean(out.nll)) @@
      ("elbo/kl" :> mean(out.kl))

forward_pass(prm, xb, y) ==
  LET xd == xb
      out == model(prm, xd)
      elbo_sep == out.elbo
      elbo == mean(elbo_sep)
      loss == neg(elbo)
  IN  ("out_sample" :> out.sample) @@ ("out_mean" :> out.mean) @@
      ("loss" :> loss) @@ ("elbo_sep" :> elbo_sep) @@
      ("elbo/elbo" :> elbo) @@ ("elbo/recons" :> mean(out.nll)) @@
      ("elbo/kl" :> mean(out.kl))

(***************************************************************************)
(* Files and file names.                                                   *)
(***************************************************************************)
os_path_join(dir, name) ==
  IF Len(dir) = 0 THEN name
  ELSE IF dir[Len(dir)] = "/" THEN dir \o name
  ELSE dir \o <<"/">> \o name

\* torchvision's save_image(tensor, fname, nrow): one grid image at fname,
\* replacing a file of that name.
save_image(fs, imgs, name, nrow) ==
  {f \in fs : f.name # name} \cup {[name |-> name, imgs |-> imgs, nrow |-> nrow]}

Min(a, b) == IF a < b THEN a ELSE b

\* Python's t[:k]
Slice(t, k) == SubSeq(t, 1, Min(k, Len(t)))

RuntimeError(msg) == [type |-> "RuntimeError", msg |-> msg]

\* save_input_and_recons with the permute left out: all inputs, then all
\* reconstructions
save_input_and_recons_no_permute(prm, fs, xb, name, n_side) ==
  LET n_img == (n_side * n_side) \div 2
  IN  IF Len(xb) < n_img
        THEN [raised |-> RuntimeError(
                           <<str(n_img),
                             " data points required, but given batch has size ",
                             str(Len(xb)),
                             ". Please use a larger batch.">>),
              files |-> fs]
      ELSE
        LET outputs == forward_pass(prm, xb, None)
            stacked == <<Slice(xb, n_img), Slice(outputs["out_sample"], n_img)>>
        IN  IF n_img * 2 # n_side * n_side
              THEN [raised |-> RuntimeError(<<"shape is invalid">>), files |-> fs]
            ELSE
              LET imgs == [k \in 1 .. (n_side * n_side) |->
                             stacked[((k - 1) \div n_img) + 1][((k - 1) % n_img) + 1]]
              IN  [raised |-> NoError,
                   files |-> save_image(fs, imgs, name, n_side)]

(***************************************************************************)
(* save_input_and_recons(x, fname, n): the files it leaves and the         *)
(* exception it raises, if any.                                            *)
(***************************************************************************)
save_input_and_recons(prm, fs, xb, name, n_side) ==
  LET n_img == (n_side * n_side) \div 2
  IN  IF Len(xb) < n_img
        THEN [raised |-> RuntimeError(
                           <<str(n_img),
                             " data points required, but given batch has size ",
                             str(Len(xb)),
                             ". Please use a larger batch.">>),
              files |-> fs]
      ELSE
        LET outputs == forward_pass(prm, xb, None)   \* on the whole batch
            xs == Slice(xb, n_img)
            recons == Slice(outputs["out_sample"], n_img)
            stacked == <<xs, recons>>                      \* shape (2, n_img)
            permuted == [i \in 1 .. n_img |->
                           [j \in 1 .. 2 |-> stacked[j][i]]]  \* (n_img, 2)
            count == n_img * 2
        IN  IF count # n_side * n_side
              THEN [raised |-> RuntimeError(<<"shape '[", str(n_side * n_side),
                                              ", ...]' is invalid for input of size ",
                                              str(count), " images">>),
                    files |-> fs]
            ELSE
              LET imgs == [k \in 1 .. (n_side * n_side) |->
                             permuted[((k - 1) \div 2) + 1][((k - 1) % 2) + 1]]
              IN  [raised |-> NoError,
                   files |-> save_image(fs, imgs, name, n_side)]

(***************************************************************************)
(* Inputs.                                                                 *)
(***************************************************************************)
\* Saved images will have n**2 sub-images
n == 8

\* a batch of b images: the example off, and the ones after it in turn
Batch(b, off) == [i \in 1 .. b |-> <<"input", (off + i - 1) % NumEx>>]
Batches(b) == {Batch(b, off) : off \in Examples}

Labels(xb) == [i \in 1 .. Len(xb) |-> xb[i][2] % 2]

\* The test sets tried: none, and first batches around n**2 // 2 examples.
TestLoaders == {<<>>, <<Batch(1, 0)>>, <<Batch(31, 0)>>, <<Batch(32, 1)>>,
                <<Batch(32, 0)>>, <<Batch(33, 0), Batch(2, 1)>>}

Folders == {<<"i", "m", "g">>}

Exception(type) == [type |-> type, msg |-> <<>>]

(***************************************************************************)
(* Start of the process: _parse_args, then the run description.            *)
(***************************************************************************)
InitConfig ==
  /\ pc = "start"
  /\ args = NoRecord
  /\ run_description = None
  /\ err = NoError
  /\ global_step = 0
  /\ params = [e \in Examples |-> [nll |-> 1, kl |-> 0]]
  /\ dataloaders_test = <<>>
  /\ files = {}
  /\ effects = {}
  /\ call = NoCall
  /\ ret = NoRecord
  /\ model_out = NoRecord
  /\ img_folder = None
  /\ step = -1
  /\ x = None
  /\ fname = None

parse_args_call ==
  /\ pc = "start"
  /\ \E argv \in Argv :
       LET r == _parse_args(argv)
       IN  /\ call' = [op |-> "_parse_args", argv |-> argv]
           /\ IF r.raised # ""
                THEN /\ err' = Exception(r.raised)
                     /\ pc' = "failed"
                     /\ args' = args
                ELSE /\ err' = err
                     /\ pc' = "parsed"
                     /\ args' = r.args
  /\ UNCHANGED <<run_description, global_step, params, dataloaders_test, files,
                 effects, ret, model_out, img_folder, step, x, fname>>

make_run_description_call ==
  /\ pc = "parsed"
  /\ run_description' = _make_run_description(args)
  /\ pc' = "described"
  /\ UNCHANGED <<args, err, global_step, params, dataloaders_test, files,
                 effects, call, ret, model_out, img_folder, step, x, fname>>

NextConfig == parse_args_call \/ make_run_description_call

SpecConfig == InitConfig /\ [][NextConfig]_vars

(***************************************************************************)
(* The running experiment: training steps made by the trainer, and the     *)
(* calls it makes into the manager.                                        *)
(***************************************************************************)
Init ==
  /\ pc = "idle"
  /\ args \in {_parse_args([Defaults EXCEPT !.dry_run = r]).args : r \in BOOLEAN}
  /\ run_description = _make_run_description(args)
  /\ err = NoError
  /\ global_step = 0
  /\ params \in ParamSpace
  /\ dataloaders_test \in TestLoaders
  /\ files = {}
  /\ effects = {}
  /\ call = NoCall
  /\ ret = NoRecord
  /\ model_out = NoRecord
  /\ img_folder = None
  /\ step = -1
  /\ x = None
  /\ fname = None

\* One optimizer step of the trainer: the parameters change, the counter
\* advances, and the previous loss record has been consumed.
train_step ==
  /\ pc = "idle"
  /\ global_step < MaxStep
  /\ global_step' = global_step + 1
  /\ params' \in ParamSpace
  /\ call' = NoCall
  /\ ret' = NoRecord
  /\ model_out' = NoRecord
  /\ UNCHANGED <<pc, args, run_description, err, dataloaders_test, files,
                 effects, img_folder, step, x, fname>>

forward_pass_call ==
  /\ pc = "idle"
  /\ \E b \in 1 .. MaxBatch : \E xb \in Batches(b) : \E y \in {None, Labels(xb)} :
       /\ call' = [op |-> "forward_pass", x |-> xb, y |-> y]
       /\ model_out' = model(params, xb)
       /\ ret' = forward_pass(params, xb, y)
  /\ UNCHANGED <<pc, args, run_description, err, global_step, params,
                 dataloaders_test, files, effects, img_folder, step, x, fname>>

\* additional_testing that goes on whatever dry_run says
additional_testing_ignores_dry_run ==
  /\ pc = "idle"
  /\ \E folder \in Folders :
       /\ call' = [op |-> "additional_testing", img_folder |-> folder]
       /\ img_folder' = folder
  /\ step' = global_step
  /\ ret' = NoRecord
  /\ model_out' = NoRecord
  /\ pc' = "at_sample"
  /\ UNCHANGED <<args, run_description, err, global_step, params,
                 dataloaders_test, files, effects, x, fname>>

\* additional_testing(img_folder), up to the dry_run test
additional_testing ==
  /\ pc = "idle"
  /\ \E folder \in Folders :
       /\ call' = [op |-> "additional_testing", img_folder |-> folder]
       /\ img_folder' = folder
  /\ step' = global_step
  /\ ret' = NoRecord
  /\ model_out' = NoRecord
  /\ pc' = IF ~args.dry_run THEN "at_sample" ELSE "returned"
  /\ UNCHANGED <<args, run_description, err, global_step, params,
                 dataloaders_test, files, effects, x, fname>>

\* Save model samples
additional_testing_sample ==
  /\ pc = "at_sample"
  /\ LET sample == sample_prior(n * n)
         name == os_path_join(img_folder,
                   <<"s", "a", "m", "p", "l", "e", "_">> \o str(step)
                     \o <<".", "p", "n", "g">>)
     IN  /\ effects' = effects \cup {"sample_prior"}
         /\ files' = save_image(files, sample, name, n)
         /\ fname' = name
  /\ pc' = "at_fetch"
  /\ UNCHANGED <<args, run_description, err, global_step, params,
                 dataloaders_test, call, ret, model_out, img_folder, step, x>>

\* the fetch step naming the second file 'sample_' as well
additional_testing_fetch_sample_name ==
  /\ pc = "at_fetch"
  /\ effects' = effects \cup {"test_loader"}
  /\ IF Len(dataloaders_test) = 0
       THEN /\ err' = Exception("StopIteration")
            /\ pc' = "failed"
            /\ UNCHANGED <<x, fname>>
       ELSE /\ x' = Head(dataloaders_test)
            /\ fname' = os_path_join(img_folder,
                           <<"s", "a", "m", "p", "l", "e", "_">> \o str(step)
                             \o <<".", "p", "n", "g">>)
            /\ pc' = "at_recons"
            /\ err' = err
  /\ UNCHANGED <<args, run_description, global_step, params, dataloaders_test,
                 files, call, ret, model_out, img_folder, step>>

\* Get first test batch
additional_testing_fetch ==
  /\ pc = "at_fetch"
  /\ effects' = effects \cup {"test_loader"}
  /\ IF Len(dataloaders_test) = 0
       THEN /\ err' = Exception("StopIteration")
            /\ pc' = "failed"
            /\ UNCHANGED <<x, fname>>
       ELSE /\ x' = Head(dataloaders_test)
            /\ fname' = os_path_join(img_folder,
                           <<"r", "e", "c", "o", "n", "s", "t", "r", "u", "c",
                             "t", "i", "o", "n", "_">> \o str(step)
                             \o <<".", "p", "n", "g">>)
            /\ pc' = "at_recons"
            /\ err' = err
  /\ UNCHANGED <<args, run_description, global_step, params, dataloaders_test,
                 files, call, ret, model_out, img_folder, step>>

\* the last step undoing the invocation's files when it raises
additional_testing_recons_all_or_nothing ==
  /\ pc = "at_recons"
  /\ LET r == save_input_and_recons(params, files, x, fname, n)
     IN  /\ files' = IF r.raised = NoError THEN r.files
                     ELSE {f \in files :
                             SubSeq(f.name, 1, Len(img_folder)) # img_folder}
         /\ err' = r.raised
         /\ pc' = IF r.raised = NoError THEN "returned" ELSE "failed"
  /\ UNCHANGED <<args, run_description, global_step, params, dataloaders_test,
                 effects, call, ret, model_out, img_folder, step, x, fname>>

\* Save model original/reconstructions
additional_testing_recons ==
  /\ pc = "at_recons"
  /\ LET r == save_input_and_recons(params, files, x, fname, n)
     IN  /\ files' = r.files
         /\ err' = r.raised
         /\ pc' = IF r.raised = NoError THEN "returned" ELSE "failed"
  /\ UNCHANGED <<args, run_description, global_step, params, dataloaders_test,
                 effects, call, ret, model_out, img_folder, step, x, fname>>

\* The call has returned: its frame is gone.
return ==
  /\ pc = "returned"
  /\ pc' = "idle"
  /\ img_folder' = None
  /\ step' = -1
  /\ x' = None
  /\ fname' = None
  /\ UNCHANGED <<args, run_description, err, global_step, params,
                 dataloaders_test, files, effects, call, ret, model_out>>

Next ==
  \/ train_step
  \/ forward_pass_call
  \/ additional_testing
  \/ additional_testing_sample
  \/ additional_testing_fetch
  \/ additional_testing_recons
  \/ return

Spec == Init /\ [][Next]_vars

(***************************************************************************)
(* save_input_and_recons called on its own, with any grid side.            *)
(***************************************************************************)
InitRecons ==
  /\ pc = "idle"
  /\ args = _parse_args(Defaults).args
  /\ run_description = _make_run_description(args)
  /\ err = NoError
  /\ global_step = 0
  /\ params \in ParamSpace
  /\ dataloaders_test = <<>>
  /\ files = {}
  /\ effects = {}
  /\ call = NoCall
  /\ ret = NoRecord
  /\ model_out = NoRecord
  /\ img_folder = None
  /\ step = -1
  /\ x = None
  /\ fname = None

\* the grid sides tried: small ones, odd and even, and the one additional_testing uses
GridSides == (2 .. MaxN) \cup {n}

save_input_and_recons_call ==
  /\ pc = "idle"
  /\ \E side \in GridSides :
     \E b \in 0 .. (((side * side) \div 2) + 1) :
     \E xb \in Batches(b) :
       LET name == <<"g", "r", "i", "d", ".", "p", "n", "g">>
           r == save_input_and_recons(params, files, xb, name, side)
       IN  /\ call' = [op |-> "save_input_and_recons", x |-> xb,
                       fname |-> name, n |-> side]
           /\ files' = r.files
           /\ err' = r.raised
           /\ pc' = IF r.raised = NoError THEN "idle" ELSE "failed"
  /\ UNCHANGED <<args, run_description, global_step, params, dataloaders_test,
                 effects, ret, model_out, img_folder, step, x, fname>>

NextRecons == save_input_and_recons_call

SpecRecons == InitRecons /\ [][NextRecons]_vars

(***************************************************************************)
(* Reference notions the properties are stated with.                       *)
(***************************************************************************)
DigitVal(c) ==
  CASE c = "0" -> 0 [] c = "1" -> 1 [] c = "2" -> 2 [] c = "3" -> 3
    [] c = "4" -> 4 [] c = "5" -> 5 [] c = "6" -> 6 [] c = "7" -> 7
    [] c = "8" -> 8 [] c = "9" -> 9 [] OTHER -> -1

RECURSIVE ParseNat(_)
ParseNat(ds) == IF Len(ds) = 0 THEN 0
                ELSE 10 * ParseNat(SubSeq(ds, 1, Len(ds) - 1)) + DigitVal(ds[Len(ds)])

\* ds is the decimal numeral of the natural number k
IsDecimalOf(ds, k) ==
  /\ Len(ds) >= 1
  /\ \A i \in 1 .. Len(ds) : DigitVal(ds[i]) >= 0
  /\ (Len(ds) > 1 => ds[1] # "0")
  /\ ParseNat(ds) = k

\* name is <dir>/<base><k>.png
IsStepName(name, dir, base, k) ==
  LET pre == dir \o <<"/">> \o base
      suf == <<".", "p", "n", "g">>
  IN  /\ Len(name) > Len(pre) + Len(suf)
      /\ SubSeq(name, 1, Len(pre)) = pre
      /\ SubSeq(name, Len(name) - Len(suf) + 1, Len(name)) = suf
      /\ IsDecimalOf(SubSeq(name, Len(pre) + 1, Len(name) - Len(suf)), k)

SampleBase == <<"s", "a", "m", "p", "l", "e", "_">>
ReconsBase == <<"r", "e", "c", "o", "n", "s", "t", "r", "u", "c", "t", "i", "o", "n", "_">>

SampleFiles(k) == {f \in files : IsStepName(f.name, call.img_folder, SampleBase, k)}
ReconsFiles(k) == {f \in files : IsStepName(f.name, call.img_folder, ReconsBase, k)}

\* the sum of a vector, from its last entry down
RECURSIVE Total(_, _)
Total(v, k) == IF k = 0 THEN 0 ELSE v[k] + Total(v, k - 1)

\* the fraction r is p / q
IsRatio(r, p, q) == r.den > 0 /\ r.num * q = p * r.den

(***************************************************************************)
(* Properties of forward_pass, under Spec.                                 *)
(***************************************************************************)
\* C1: for every batch of size b >= 1 and every model output, the record
\* forward_pass returns has 'loss' equal to minus the mean of the model's
\* per-example ELBO vector (its sum over its length), 'elbo/elbo' equal to
\* that mean, and so 'elbo/elbo' = -'loss'.
C1_LossIsNegatedMeanElbo ==
  call.op = "forward_pass" =>
    LET v == model_out.elbo
        b == Len(call.x)
    IN  /\ b >= 1
        /\ IsRatio(ret["elbo/elbo"], Total(v, Len(v)), Len(v))
        /\ IsRatio(ret["loss"], 0 - Total(v, Len(v)), Len(v))
        /\ ret["elbo/elbo"].num = 0 - ret["loss"].num
        /\ ret["elbo/elbo"].den = ret["loss"].den

\* a batch of three examples whose mean ELBO is not a whole number
C1_Witness ==
  /\ call.op = "forward_pass"
  /\ Len(call.x) = 3
  /\ ret["loss"].den = 3
  /\ ret["loss"].num > 0

\* C7: for every batch of size b >= 1 the 'elbo_sep' entry of the record
\* forward_pass returns is the model's per-example ELBO vector, un-reduced
\* and unmodified, and has exactly b entries.
C7_ElboSepPassedThrough ==
  call.op = "forward_pass" =>
    /\ ret["elbo_sep"] = model_out.elbo
    /\ Len(ret["elbo_sep"]) = Len(call.x)

\* a batch of three examples with different ELBO values
C7_Witness ==
  /\ call.op = "forward_pass"
  /\ Len(call.x) = 3
  /\ ret["elbo_sep"][1] # ret["elbo_sep"][2]

\* C9: a forward_pass call, with or without labels y, leaves the parsed
\* args, model.global_step, the model parameters and the files on disk as
\* they were, and returns the record it returns without y.
C9_ForwardPassNoSideEffects ==
  [][(call'.op = "forward_pass" /\ call' # call) =>
       /\ UNCHANGED <<args, global_step, params, files, run_description,
                      dataloaders_test, effects, err>>
       /\ ret' = forward_pass(params', call'.x, None)]_vars

\* a call with labels, made after a training step and after images were written
C9_Witness ==
  /\ call.op = "forward_pass"
  /\ call.y # None
  /\ global_step >= 1
  /\ files # {}

(***************************************************************************)
(* Properties of additional_testing, under Spec.                           *)
(***************************************************************************)
\* an additional_testing invocation is over
InvocationOver ==
  call.op = "additional_testing" /\ pc \in {"returned", "idle", "failed"}

\* C4: with dry_run enabled, after any sequence of additional_testing
\* invocations, at any global_step and with any test set (none, or an
\* undersized first batch), no image file has been written, the prior has
\* never been sampled, the test loader has never been read and no error
\* has been raised.
C4_DryRunWritesNothing ==
  args.dry_run =>
    /\ files = {}
    /\ "sample_prior" \notin effects
    /\ "test_loader" \notin effects
    /\ err = NoError
    /\ pc \in {"idle", "returned"}

\* a dry-run invocation after a training step, with no test batch at all
C4_Witness ==
  /\ args.dry_run
  /\ call.op = "additional_testing"
  /\ pc = "idle"
  /\ global_step = 1
  /\ Len(dataloaders_test) = 0

Undersized ==
  /\ Len(dataloaders_test) > 0
  /\ Len(Head(dataloaders_test)) < 32

\* C10: with dry_run off, additional_testing writes sample_<step>.png
\* before it fetches the first test batch and before that batch's size is
\* checked; so when that batch has fewer than 32 examples the invocation
\* ends in the undersized-batch error with sample_<step>.png written and
\* reconstruction_<step>.png not written.
C10_SampleWrittenBeforeBatchChecked ==
  call.op = "additional_testing" =>
    /\ pc \in {"at_fetch", "at_recons"} => SampleFiles(step) # {}
    /\ pc = "at_fetch" => x = None
    /\ (pc = "at_sample" /\ Undersized) => "test_loader" \notin effects
    /\ (InvocationOver /\ ~args.dry_run /\ Undersized) =>
         /\ pc = "failed"
         /\ err.type = "RuntimeError"
         /\ IsDecimalOf(err.msg[1], 32)
         /\ IsDecimalOf(err.msg[3], Len(x))
         /\ Len(x) = Len(Head(dataloaders_test))
         /\ SampleFiles(step) # {}
         /\ ReconsFiles(step) = {}

\* the invocation at step 1 has raised on a first batch of 31 examples
C10_Witness ==
  /\ call.op = "additional_testing"
  /\ pc = "failed"
  /\ step = 1
  /\ Len(x) = 31
  /\ Cardinality(files) = 1

(***************************************************************************)
(* Properties of save_input_and_recons, under SpecRecons.                  *)
(***************************************************************************)
\* C2: save_input_and_recons with grid side n raises a RuntimeError whose
\* message states the required size n^2 // 2 and the actual batch size, and
\* writes no image, whenever the batch has fewer than n^2 // 2 examples;
\* for every batch of at least n^2 // 2 examples it succeeds and writes
\* exactly one grid image, of exactly n^2 sub-images.
C2_FailsBelowHalfElseWritesGrid ==
  [][pc = "idle" =>
       LET c == call'
           need == (c.n * c.n) \div 2
       IN  IF Len(c.x) < need
             THEN /\ pc' = "failed"
                  /\ err'.type = "RuntimeError"
                  /\ IsDecimalOf(err'.msg[1], need)
                  /\ IsDecimalOf(err'.msg[3], Len(c.x))
                  /\ files' = files
             ELSE /\ pc' = "idle"
                  /\ err' = NoError
                  /\ Cardinality({f \in files' : f.name = c.fname}) = 1
                  /\ \A f \in files' : f.name = c.fname => Len(f.imgs) = c.n * c.n]_vars

\* C2 for even grid sides only
C2_EvenSides ==
  [][(pc = "idle" /\ call'.n % 2 = 0) =>
       LET c == call'
           need == (c.n * c.n) \div 2
       IN  IF Len(c.x) < need
             THEN /\ pc' = "failed"
                  /\ err'.type = "RuntimeError"
                  /\ IsDecimalOf(err'.msg[1], need)
                  /\ IsDecimalOf(err'.msg[3], Len(c.x))
                  /\ files' = files
             ELSE /\ pc' = "idle"
                  /\ err' = NoError
                  /\ Cardinality({f \in files' : f.name = c.fname}) = 1
                  /\ \A f \in files' : f.name = c.fname => Len(f.imgs) = c.n * c.n]_vars

\* C8: in the grid save_input_and_recons writes, for every i in
\* 0 .. n^2/2 - 1 sub-image 2i is input example i of the batch and sub-image
\* 2i+1 is the model's reconstruction of that example; only the first
\* n^2 // 2 examples are used, in their order.
C8_GridInterleavesInputsAndRecons ==
  (call.op = "save_input_and_recons" /\ err = NoError) =>
    LET need == (call.n * call.n) \div 2
        recons == model(params, call.x).sample
    IN  /\ Len(call.x) >= need
        /\ \E f \in files :
             /\ f.name = call.fname
             /\ Len(f.imgs) = 2 * need
             /\ \A i \in 0 .. (need - 1) :
                  /\ f.imgs[(2 * i) + 1] = call.x[i + 1]
                  /\ f.imgs[(2 * i + 1) + 1] = recons[i + 1]

\* a grid of side 8 written from a batch of 33 examples
C8_Witness ==
  /\ call.op = "save_input_and_recons"
  /\ err = NoError
  /\ call.n = 8
  /\ Len(call.x) = 33
  /\ \E f \in files : Len(f.imgs) = 64

(***************************************************************************)
(* Properties of the start of the process, under SpecConfig.               *)
(***************************************************************************)
\* a is a whole multiple of b
IsMultiple(a, b) == \E k \in 0 .. a : a = k * b

\* C3: _parse_args ends in a fatal error and returns no args whenever
\* loglikelihood_every is not an exact multiple of test_log_every (100 and
\* 30), and returns the parsed args whenever it is (100 and 50); the test
\* is made before the args reach the rest of the experiment.
C3_ParseArgsChecksMultiple ==
  /\ call.op = "_parse_args" =>
       IF IsMultiple(call.argv.loglikelihood_every, call.argv.test_log_every)
         THEN pc \in {"parsed", "described"} /\ args = call.argv /\ err = NoError
         ELSE pc = "failed" /\ args = NoRecord /\ err # NoError
  /\ args # NoRecord => IsMultiple(args.loglikelihood_every, args.test_log_every)
  /\ pc = "start" => args = NoRecord
  /\ run_description # None => args # NoRecord

\* parsing loglikelihood_every = 100 with test_log_every = 30 has failed
C3_Witness ==
  /\ call.op = "_parse_args"
  /\ call.argv.loglikelihood_every = 100
  /\ call.argv.test_log_every = 30
  /\ pc = "failed"
  /\ err.type = "AssertionError"

\* C6: the run description is 'seed' followed by the decimal numeral of
\* the seed when additional_descr is empty, and that followed by ',' and
\* additional_descr otherwise; for seed 54321 it is 'seed54321' and, with
\* the description 'foo', 'seed54321,foo'.
C6_RunDescription ==
  pc = "described" =>
    LET d == args.additional_descr
        rd == run_description
        rest == IF Len(d) = 0 THEN 0 ELSE Len(d) + 1
    IN  /\ Len(rd) > 4 + rest
        /\ SubSeq(rd, 1, 4) = <<"s", "e", "e", "d">>
        /\ IsDecimalOf(SubSeq(rd, 5, Len(rd) - rest), args.seed)
        /\ Len(d) > 0 => SubSeq(rd, Len(rd) - rest + 1, Len(rd)) = <<",">> \o d
        /\ (args.seed = 54321 /\ d = <<>>) =>
             rd = <<"s", "e", "e", "d", "5", "4", "3", "2", "1">>
        /\ (args.seed = 54321 /\ d = <<"f", "o", "o">>) =>
             rd = <<"s", "e", "e", "d", "5", "4", "3", "2", "1", ",", "f", "o", "o">>

\* the description of seed 54321 with additional_descr 'foo'
C6_Witness ==
  /\ pc = "described"
  /\ args.seed = 54321
  /\ args.additional_descr = <<"f", "o", "o">>
  /\ Len(run_description) = 13

====
